---------------------------- MODULE Spec2Model ----------------------------
(***************************************************************************)
(* A model of dinamycam/listbot.                                           *)
(*                                                                         *)
(*   src/mentionallbot/botfinal.py  the membership tracker: an SQLite      *)
(*       store (tables users and membership), two ingest handlers and two  *)
(*       admin-gated commands;                                             *)
(*   src/bot.py                     the tracked-list bot: one in-memory    *)
(*       record and two handlers.                                          *)
(*                                                                         *)
(* Conventions.                                                            *)
(*   - Text that the code processes (names, usernames) is a sequence of    *)
(*     one-character strings; fixed reply texts are plain strings.         *)
(*   - An optional value is a sequence of length at most one: None is      *)
(*     <<>>, a populated value x is <<x>>.  An absent string is <<>>: the  *)
(*     code only ever tests strings for truthiness, where None and ''      *)
(*     agree.                                                              *)
(*   - A table is the set of its rows.  Nothing in the representation      *)
(*     keeps keys unique: uniqueness is what the ON CONFLICT clauses of    *)
(*     the statements have to establish.                                   *)
(*   - The python-telegram-bot application dispatches one update at a time *)
(*     (concurrent_updates is off), so in Spec a handler is one step.      *)
(*   - Outbound platform calls (reply_text, reply_html) and SQLite         *)
(*     statements succeed; get_chat_member, get_chat_administrators, pin   *)
(*     and edit_message_text may raise, as the code's try blocks expect.   *)
(*   - The clock is read in whole seconds and moves between handlers.      *)
(***************************************************************************)
EXTENDS Integers, Sequences, FiniteSets, TLC

(***************************************************************************)
(* Bounds of the model.                                                    *)
(***************************************************************************)
MaxEvents == 2
MaxCalls == 3
MaxMembers == 57
MaxUpdates == 4
MaxMsgId == 3
MaxHandlers == 3
T0 == 1700000000

(***************************************************************************)
(* Program constants (botfinal.py).                                        *)
(***************************************************************************)
BATCH_SIZE == 25
STALE_DAYS == 90
DAY_SECONDS == 86400

\* The chats and the users of the handler-level specifications.
Chats == {1, 2}
Users == {1, 2}

None == <<>>
Some(x) == <<x>>
IsNone(o) == o = <<>>
Get(o) == o[1]
Opt(S) == {None} \cup {Some(x) : x \in S}

(***************************************************************************)
(* Python string helpers.                                                  *)
(***************************************************************************)
DigitChar(d) == CASE d = 0 -> "0" [] d = 1 -> "1" [] d = 2 -> "2" [] d = 3 -> "3"
                  [] d = 4 -> "4" [] d = 5 -> "5" [] d = 6 -> "6" [] d = 7 -> "7"
                  [] d = 8 -> "8" [] d = 9 -> "9"

RECURSIVE IntStr(_)
IntStr(n) == IF n < 0 THEN <<"-">> \o IntStr(0 - n)
             ELSE IF n < 10 THEN <<DigitChar(n)>>
             ELSE IntStr(n \div 10) \o <<DigitChar(n % 10)>>

\* f"user{id}"
SyntheticName(id) == <<"u", "s", "e", "r">> \o IntStr(id)

\* a or b, on strings
StrOr(a, b) == IF a # <<>> THEN a ELSE b

\* html.escape(s) with quote=True
EscapeChar(c) == CASE c = "&" -> <<"&", "a", "m", "p", ";">>
                   [] c = "<" -> <<"&", "l", "t", ";">>
                   [] c = ">" -> <<"&", "g", "t", ";">>
                   [] c = "\"" -> <<"&", "q", "u", "o", "t", ";">>
                   [] c = "'" -> <<"&", "#", "x", "2", "7", ";">>
                   [] OTHER -> <<c>>

RECURSIVE HtmlEscape(_)
HtmlEscape(s) == IF s = <<>> THEN <<>> ELSE EscapeChar(Head(s)) \o HtmlEscape(Tail(s))

(***************************************************************************)
(* telegram.User: id, first_name, last_name, username, and the full_name   *)
(* property of the library (first and last name joined by one space when   *)
(* the last name is set, else the first name).                             *)
(***************************************************************************)
FullName(user) == IF user.last_name # <<>>
                  THEN user.first_name \o <<" ">> \o user.last_name
                  ELSE user.first_name

\* The profile each user id carries in the handler-level specifications:
\* the ids differ in which of the name fields are set.
ProfileOf(id) ==
    CASE id % 4 = 1 -> [first_name |-> <<"A", "&">>, last_name |-> <<"B">>, username |-> <<>>]
      [] id % 4 = 2 -> [first_name |-> <<>>, last_name |-> <<>>, username |-> <<"c", "<">>]
      [] id % 4 = 3 -> [first_name |-> <<>>, last_name |-> <<>>, username |-> <<>>]
      [] OTHER      -> [first_name |-> <<"D">>, last_name |-> <<>>, username |-> <<"d">>]

UserObj(id) == [id |-> id, first_name |-> ProfileOf(id).first_name,
                last_name |-> ProfileOf(id).last_name,
                username |-> ProfileOf(id).username]

(***************************************************************************)
(* State.                                                                  *)
(***************************************************************************)
VARIABLES
    users,        \* table users: rows [user_id, name, username, updated_at]
    membership,   \* table membership: rows [chat_id, user_id, first_seen, last_seen]
    now,          \* the clock, int(time.time())
    ev,           \* the update the last handler invocation was given
    out,          \* the outbound calls that invocation made, in order
    observed,     \* history: the (chat, user) pairs observed and not removed since
    nev,          \* the number of handler invocations so far
    tracked,      \* bot.py: the tracked-list record
    lastId,       \* bot.py: per chat, the highest message id the bot's prompts got
    pinned,       \* bot.py: the prompts the platform pinned
    retired,      \* bot.py: the prompts a later /start replaced, and what was dropped
    editFailed,   \* bot.py: the indices of the entries whose own edit raised
    collected,    \* bot.py: for each entry, the chat and message its reply targeted
    tasks         \* the handler invocations suspended at an await, with their locals

storeVars == <<users, membership>>
trackerVars == <<users, membership, now, observed>>
listVars == <<tracked, lastId, pinned, retired, editFailed, collected>>
vars == <<users, membership, now, ev, out, observed, nev, tracked, lastId, pinned, retired,
          editFailed, collected, tasks>>

(***************************************************************************)
(* The membership store (botfinal.py, "DB helpers").  A database is the    *)
(* record of its two tables; every operation maps a database to the        *)
(* database after its commit.                                              *)
(***************************************************************************)
DB == [users |-> users, membership |-> membership]

\* name = user.full_name or user.first_name or (user.username or f"user{user.id}")
StoredName(user) ==
    StrOr(FullName(user), StrOr(user.first_name, StrOr(user.username, SyntheticName(user.id))))

\* The row upsert_user offers: (user.id, name, user.username or "", now_ts())
NewUserRow(user, ts) ==
    [user_id |-> user.id, name |-> StoredName(user),
     username |-> StrOr(user.username, <<>>), updated_at |-> ts]

\* The row upsert_membership offers: (chat_id, user.id, ts, ts)
NewMembershipRow(chat_id, user_id, ts) ==
    [chat_id |-> chat_id, user_id |-> user_id, first_seen |-> ts, last_seen |-> ts]

\* Mutant: a plain INSERT into a table without the primary key.
UpsertUserRows_Insert(us, user, ts) == us \cup {NewUserRow(user, ts)}

\* INSERT INTO users ... ON CONFLICT(user_id) DO UPDATE SET name, username, updated_at
UpsertUserRows(us, user, ts) ==
    LET new == NewUserRow(user, ts)
    IN  IF \E r \in us : r.user_id = user.id
        THEN {IF r.user_id = user.id
              THEN [r EXCEPT !.name = new.name, !.username = new.username,
                             !.updated_at = new.updated_at]
              ELSE r : r \in us}
        ELSE us \cup {new}

\* upsert_user(user), user an optional telegram.User
UpsertUser(db, user, ts) ==
    IF IsNone(user) THEN db
    ELSE [db EXCEPT !.users = UpsertUserRows(db.users, Get(user), ts)]

\* Mutant: the conflict is settled by an UPDATE without the user in its WHERE
\* clause, which moves last_seen of every row of the chat.
UpsertMembershipRows_WholeChat(ms, chat_id, user_id, ts) ==
    IF \E r \in ms : r.chat_id = chat_id /\ r.user_id = user_id
    THEN {IF r.chat_id = chat_id THEN [r EXCEPT !.last_seen = ts] ELSE r : r \in ms}
    ELSE ms \cup {NewMembershipRow(chat_id, user_id, ts)}

\* Mutant: INSERT OR REPLACE, the conflicting row is replaced whole.
UpsertMembershipRows_Replace(ms, chat_id, user_id, ts) ==
    {r \in ms : ~(r.chat_id = chat_id /\ r.user_id = user_id)}
        \cup {NewMembershipRow(chat_id, user_id, ts)}

\* INSERT INTO membership ... ON CONFLICT(chat_id,user_id) DO UPDATE SET last_seen
UpsertMembershipRows(ms, chat_id, user_id, ts) ==
    IF \E r \in ms : r.chat_id = chat_id /\ r.user_id = user_id
    THEN {IF r.chat_id = chat_id /\ r.user_id = user_id
          THEN [r EXCEPT !.last_seen = ts]
          ELSE r : r \in ms}
    ELSE ms \cup {NewMembershipRow(chat_id, user_id, ts)}

\* upsert_membership(chat_id, user): upsert_user's commit, then the membership commit
UpsertMembership(db, chat_id, user, ts) ==
    IF IsNone(user) THEN db
    ELSE LET db1 == UpsertUser(db, user, ts)
         IN  [db1 EXCEPT !.membership =
                  UpsertMembershipRows(db1.membership, chat_id, Get(user).id, ts)]

\* Mutant: the DELETE without "AND user_id=?".
RemoveMembership_WholeChat(db, chat_id, user_id) ==
    [db EXCEPT !.membership = {r \in db.membership : r.chat_id # chat_id}]

\* Mutant: the DELETE without "chat_id=? AND".
RemoveMembership_AllChats(db, chat_id, user_id) ==
    [db EXCEPT !.membership = {r \in db.membership : r.user_id # user_id}]

\* remove_membership(chat_id, user_id)
RemoveMembership(db, chat_id, user_id) ==
    [db EXCEPT !.membership =
        {r \in db.membership : ~(r.chat_id = chat_id /\ r.user_id = user_id)}]

\* The rows of SELECT ... FROM membership m JOIN users u ON u.user_id = m.user_id
\* WHERE m.chat_id = ?, as a bag: one element per joined pair.
JoinedPairs(db, chat_id) ==
    {<<m, u>> \in db.membership \X db.users :
        m.chat_id = chat_id /\ u.user_id = m.user_id}

MemberRow(p) == [user_id |-> p[1].user_id, name |-> p[2].name,
                 username |-> p[2].username,
                 first_seen |-> p[1].first_seen, last_seen |-> p[1].last_seen]

\* ORDER BY m.last_seen DESC: every order of the joined pairs with last_seen
\* not increasing; SQL leaves the order of ties open.  A pair stands after the
\* pairs seen later than it (from position lo on) and not after the last pair
\* seen as late as it (up to position hi); the pairs with lo < hi are the tied
\* ones, and an order is a choice of distinct positions for them.
OrderedRows(ps) ==
    LET ranked == {[pair |-> p,
                    lo |-> 1 + Cardinality({q \in ps : q[1].last_seen > p[1].last_seen}),
                    hi |-> Cardinality({q \in ps : q[1].last_seen >= p[1].last_seen})] :
                   p \in ps}
        tied == {r \in ranked : r.lo < r.hi}
        slots == UNION {r.lo..r.hi : r \in tied}
        places == {g \in [tied -> slots] :
                      /\ \A r \in tied : r.lo <= g[r] /\ g[r] <= r.hi
                      /\ \A r, q \in tied : r # q => g[r] # g[q]}
    IN  {[i \in 1..Cardinality(ps) |->
             IF i \in slots
             THEN MemberRow((CHOOSE r \in tied : g[r] = i).pair)
             ELSE MemberRow((CHOOSE r \in ranked : r.lo = i).pair)] :
         g \in places}

\* get_members_by_chat(chat_id): the results the query may return
GetMembersByChat(db, chat_id) == OrderedRows(JoinedPairs(db, chat_id))

\* Mutant: "last_seen <= ?" in the DELETE.
PruneStale_Inclusive(db, threshold_days, ts) ==
    LET cutoff == ts - threshold_days * DAY_SECONDS
        kept == {r \in db.membership : ~(r.last_seen <= cutoff)}
    IN  [users |-> {u \in db.users : u.user_id \in {r.user_id : r \in kept}},
         membership |-> kept]

\* prune_stale(threshold_days)
PruneStale(db, threshold_days, ts) ==
    LET cutoff == ts - threshold_days * DAY_SECONDS
        kept == {r \in db.membership : ~(r.last_seen < cutoff)}
    IN  [users |-> {u \in db.users : u.user_id \in {r.user_id : r \in kept}},
         membership |-> kept]

(***************************************************************************)
(* The clock.                                                              *)
(***************************************************************************)
\* The instants the clock is read at: a start, the instant a row last seen
\* at the start reaches the stale threshold, and the second after it.
Times == {T0, T0 + STALE_DAYS * DAY_SECONDS, T0 + STALE_DAYS * DAY_SECONDS + 1}

Tick ==
    /\ \E t \in Times : t > now /\ now' = t
    /\ UNCHANGED <<users, membership, ev, out, observed, nev>>
    /\ UNCHANGED listVars
    /\ UNCHANGED tasks

(***************************************************************************)
(* Handlers of botfinal.py.                                                *)
(***************************************************************************)
Commit(db) == /\ users' = db.users
              /\ membership' = db.membership

MessageUpdates ==
    [kind : {"message"}, effective_chat : Opt(Chats),
     effective_user : Opt({UserObj(u) : u \in Users})]

\* message_collector(update, context)
MessageCollector(upd) ==
    /\ nev < MaxEvents
    /\ ev' = upd
    /\ out' = <<>>
    /\ nev' = nev + 1
    /\ UNCHANGED listVars
    /\ UNCHANGED tasks
    /\ now' = now
    /\ IF ~IsNone(upd.effective_chat) /\ ~IsNone(upd.effective_user)
       THEN /\ Commit(UpsertMembership(DB, Get(upd.effective_chat), upd.effective_user, now))
            /\ observed' = observed \cup
                   {<<Get(upd.effective_chat), Get(upd.effective_user).id>>}
       ELSE UNCHANGED <<users, membership, observed>>

Statuses == {"creator", "administrator", "member", "restricted", "left", "kicked"}

\* A ChatMemberUpdated: its new_chat_member (a ChatMember: user and status).
ChatMemberUpdateds ==
    [new_chat_member : Opt([user : {UserObj(u) : u \in Users}, status : Statuses])]

\* An Update as the ChatMemberHandler sees it.  The platform populates at most
\* one of chat_member and my_chat_member.
ChatMemberUpdates ==
    {upd \in [kind : {"chat_member_update"}, chat_member : Opt(ChatMemberUpdateds),
              my_chat_member : Opt(ChatMemberUpdateds), effective_chat : Opt(Chats)] :
        IsNone(upd.chat_member) \/ IsNone(upd.my_chat_member)}

\* The keys of the rows of ms that are not in ms2.
RemovedKeys(ms, ms2) == {<<r.chat_id, r.user_id>> : r \in ms \ ms2}

\* Mutant: only the chat_member shape is looked at.
SelectChatMember_OneShape(upd) == upd.chat_member

\* cm = update.chat_member if populated, else update.my_chat_member, else None
SelectChatMember(upd) ==
    IF ~IsNone(upd.chat_member) THEN upd.chat_member
    ELSE IF ~IsNone(upd.my_chat_member) THEN upd.my_chat_member
    ELSE None

\* chat_member_update_handler(update, context)
ChatMemberUpdateHandler(upd) ==
    /\ nev < MaxEvents
    /\ ev' = upd
    /\ out' = <<>>
    /\ nev' = nev + 1
    /\ UNCHANGED listVars
    /\ UNCHANGED tasks
    /\ now' = now
    /\ IF IsNone(SelectChatMember(upd))
       THEN UNCHANGED <<users, membership, observed>>
       ELSE LET cm == Get(SelectChatMember(upd))
                chat == upd.effective_chat
            IN  IF IsNone(chat) \/ IsNone(cm.new_chat_member)
                THEN UNCHANGED <<users, membership, observed>>
                ELSE LET user == Get(cm.new_chat_member).user
                         status == Get(cm.new_chat_member).status
                     IN  IF status \in {"member", "creator", "administrator"}
                         THEN /\ Commit(UpsertMembership(DB, Get(chat), Some(user), now))
                              /\ observed' = observed \cup {<<Get(chat), user.id>>}
                         ELSE IF status \in {"left", "kicked"}
                         THEN /\ Commit(RemoveMembership(DB, Get(chat), user.id))
                              /\ observed' = observed \ {<<Get(chat), user.id>>}
                         ELSE UNCHANGED <<users, membership, observed>>

(***************************************************************************)
(* Outbound calls.                                                         *)
(***************************************************************************)
ReplyText(text) == [call |-> "reply_text", text |-> text]
ReplyHtml(chunk) == [call |-> "reply_html", mentions |-> chunk]
Sleep == [call |-> "sleep"]

RejectEveryoneText == "Only group admins can use /everyone."
NoMembersText == "No known members. The bot hasn't seen anyone yet."
RejectPruneText == "Only group admins can run /prune."
PrunedText == "Pruned entries older than 90 days."
StartText == "I will record users who send messages or trigger membership changes. Admins can use /everyone."

\* f'<a href="tg://user?id={user_id}">{display}</a>', with
\* display = html.escape(name or (username or f"user{user_id}"))
Mention(row) ==
    [user_id |-> row.user_id,
     display |-> HtmlEscape(StrOr(row.name, StrOr(row.username, SyntheticName(row.user_id))))]

Mentions(rows) == [i \in 1..Len(rows) |-> Mention(rows[i])]

\* list(range(start, stop, step)), step > 0
RECURSIVE Range(_, _, _)
Range(start, stop, step) ==
    IF start < stop THEN <<start>> \o Range(start + step, stop, step) ELSE <<>>

\* s[i : i + n] for 0 <= i
Slice(s, i, n) == SubSeq(s, i + 1, IF i + n < Len(s) THEN i + n ELSE Len(s))

\* Mutant: only the full batches, len(mentions) // BATCH_SIZE of them.
Chunks_FullOnly(mentions) ==
    [k \in 1..(Len(mentions) \div BATCH_SIZE) |->
        Slice(mentions, (k - 1) * BATCH_SIZE, BATCH_SIZE)]

\* [mentions[i : i + BATCH_SIZE] for i in range(0, len(mentions), BATCH_SIZE)]
Chunks(mentions) ==
    LET starts == Range(0, Len(mentions), BATCH_SIZE)
    IN  [k \in 1..Len(starts) |-> Slice(mentions, starts[k], BATCH_SIZE)]

\* for chunk in chunks: reply_html(" ".join(chunk)); sleep(DELAY_SEC)
RECURSIVE Broadcast(_)
Broadcast(chunks) ==
    IF chunks = <<>> THEN <<>>
    ELSE <<ReplyHtml(Head(chunks)), Sleep>> \o Broadcast(Tail(chunks))

\* for adm in admins: upsert_membership(chat.id, adm.user)
RECURSIVE UpsertAdmins(_, _, _, _)
UpsertAdmins(db, chat_id, admins, ts) ==
    IF admins = <<>> THEN db
    ELSE UpsertAdmins(UpsertMembership(db, chat_id, Some(Head(admins).user), ts),
                      chat_id, Tail(admins), ts)

\* What the platform answers to get_chat_member: a status, or the call raises.
RoleAnswers == Statuses \cup {"raised"}

\* Mutant: plain members pass the admin check.
IsAdminRole_Members(role) == role \in {"administrator", "creator", "member"}

\* member.status in ("administrator", "creator")
IsAdminRole(role) == role \in {"administrator", "creator"}

RECURSIVE SeqOfSet(_)
SeqOfSet(S) == IF S = {} THEN <<>>
               ELSE LET x == CHOOSE y \in S : \A z \in S : y <= z
                    IN  <<x>> \o SeqOfSet(S \ {x})

\* What the platform answers to get_chat_administrators: a list of ChatMember
\* objects, or the call raises; "not_called" when the handler never asks.
AdminLists == {[i \in 1..Len(SeqOfSet(S)) |-> [user |-> UserObj(SeqOfSet(S)[i])]] :
                  S \in SUBSET Users}
AdminAnswers == {[result |-> "raised", list |-> <<>>]}
                    \cup {[result |-> "ok", list |-> l] : l \in AdminLists}
NotCalled == [result |-> "not_called", list |-> <<>>]

CommandUpdates(kind) ==
    [kind : {kind}, effective_chat : Opt(Chats),
     effective_user : Opt({UserObj(u) : u \in Users})]

\* Mutant: the admins are fetched but not upserted.
EnsureAdmins_Skip(db, chat_id, admins, ts) == db

\* What everyone() does with the database: the admins' upserts when the list
\* was fetched, nothing when the fetch raised.
EnsureAdmins(db, chat_id, admins, ts) ==
    IF admins.result = "ok" THEN UpsertAdmins(db, chat_id, admins.list, ts) ELSE db

\* The outbound calls of everyone() once the rows are read.
EveryoneReplies(rows) ==
    IF rows = <<>> THEN <<ReplyText(NoMembersText)>>
    ELSE Broadcast(Chunks(Mentions(rows)))

\* Mutant: no try block around the fetch of the admins, the exception ends
\* the handler.
EveryoneOutcomes_Abort(db, chat_id, admins, ts) ==
    IF admins.result = "raised" THEN {[db |-> db, out |-> <<>>]}
    ELSE LET db1 == EnsureAdmins(db, chat_id, admins, ts)
         IN  {[db |-> db1, out |-> EveryoneReplies(rows)] :
                 rows \in GetMembersByChat(db1, chat_id)}

\* everyone() past the admin check: the database it leaves and the outbound
\* calls it makes, one outcome per order the query may return.
EveryoneOutcomes(db, chat_id, admins, ts) ==
    LET db1 == EnsureAdmins(db, chat_id, admins, ts)
    IN  {[db |-> db1, out |-> EveryoneReplies(rows)] :
            rows \in GetMembersByChat(db1, chat_id)}

\* What ev keeps of a command: the chat, and the platform's answers.  The
\* invoking user only reaches the handler's effect through the answer to
\* get_chat_member.
EveryoneEvent(upd, role, admins) ==
    [kind |-> "everyone", chat |-> Get(upd.effective_chat), role |-> role,
     admins |-> admins]

\* everyone(update, context); role and admins are the platform's answers
Everyone(upd, role, admins) ==
    /\ nev < MaxEvents
    /\ nev' = nev + 1
    /\ UNCHANGED listVars
    /\ UNCHANGED tasks
    /\ now' = now
    /\ observed' = observed
    /\ IF IsNone(upd.effective_chat) \/ IsNone(upd.effective_user)
       THEN /\ role = "raised" /\ admins = NotCalled
            /\ ev' = [kind |-> "everyone_no_chat_or_user"]
            /\ out' = <<>>
            /\ UNCHANGED storeVars
       ELSE IF role = "raised"
       THEN /\ admins = NotCalled
            /\ ev' = EveryoneEvent(upd, role, admins)
            /\ out' = <<>>
            /\ UNCHANGED storeVars
       ELSE IF ~IsAdminRole(role)
       THEN /\ admins = NotCalled
            /\ ev' = EveryoneEvent(upd, role, admins)
            /\ out' = <<ReplyText(RejectEveryoneText)>>
            /\ UNCHANGED storeVars
       ELSE /\ admins \in AdminAnswers
            /\ ev' = EveryoneEvent(upd, role, admins)
            /\ \E o \in EveryoneOutcomes(DB, Get(upd.effective_chat), admins, now) :
                   /\ Commit(o.db)
                   /\ out' = o.out

\* start_cmd(update, context)
StartCmd(upd) ==
    /\ nev < MaxEvents
    /\ nev' = nev + 1
    /\ UNCHANGED listVars
    /\ UNCHANGED tasks
    /\ ev' = [kind |-> "start"]
    /\ out' = <<ReplyText(StartText)>>
    /\ UNCHANGED <<users, membership, now, observed>>

\* prune_cmd(update, context); role is the platform's answer
PruneCmd(upd, role) ==
    /\ nev < MaxEvents
    /\ nev' = nev + 1
    /\ UNCHANGED listVars
    /\ UNCHANGED tasks
    /\ now' = now
    /\ IF IsNone(upd.effective_chat) \/ IsNone(upd.effective_user)
       THEN /\ role = "raised"
            /\ ev' = [kind |-> "prune_no_chat_or_user"]
            /\ out' = <<>>
            /\ UNCHANGED <<users, membership, observed>>
       ELSE /\ ev' = [kind |-> "prune", role |-> role]
            /\ IF role = "raised"
               THEN /\ out' = <<>>
                    /\ UNCHANGED <<users, membership, observed>>
               ELSE IF ~IsAdminRole(role)
               THEN /\ out' = <<ReplyText(RejectPruneText)>>
                    /\ UNCHANGED <<users, membership, observed>>
               ELSE LET db1 == PruneStale(DB, STALE_DAYS, now)
                    IN  /\ Commit(db1)
                        /\ observed' = observed \ RemovedKeys(membership, db1.membership)
                        /\ out' = <<ReplyText(PrunedText)>>

Init ==
    /\ users = {}
    /\ membership = {}
    /\ now = T0
    /\ ev = [kind |-> "none"]
    /\ out = <<>>
    /\ observed = {}
    /\ nev = 0
    /\ tracked = [chat_id |-> None, message_id |-> None, next_index |-> 1,
                  entries |-> <<>>]
    /\ lastId = [c \in Chats |-> 0]
    /\ pinned = {}
    /\ retired = {}
    /\ editFailed = {}
    /\ collected = <<>>
    /\ tasks = {}

Next ==
    \/ Tick
    \/ \E upd \in MessageUpdates : MessageCollector(upd)
    \/ \E upd \in ChatMemberUpdates : ChatMemberUpdateHandler(upd)
    \/ \E upd \in CommandUpdates("everyone"), role \in RoleAnswers,
          admins \in AdminAnswers \cup {NotCalled} : Everyone(upd, role, admins)
    \/ \E upd \in CommandUpdates("start") : StartCmd(upd)
    \/ \E upd \in CommandUpdates("prune"), role \in RoleAnswers : PruneCmd(upd, role)

Spec == Init /\ [][Next]_vars

(***************************************************************************)
(* The store's operations called directly, as a caller of the DB helpers   *)
(* may: SpecStore.                                                         *)
(***************************************************************************)
\* A user who has changed the username since UserObj.
Renamed(user) == [user EXCEPT !.username = <<"n", "e", "w">>]

StoreUsers == {UserObj(u) : u \in Users} \cup {Renamed(UserObj(u)) : u \in Users}

\* The thresholds prune_stale is called with: none, and the default.
PruneThresholds == {0, STALE_DAYS}

CallStep(call) ==
    /\ nev < MaxCalls
    /\ nev' = nev + 1
    /\ UNCHANGED listVars
    /\ UNCHANGED tasks
    /\ ev' = call
    /\ UNCHANGED <<now, out, observed>>

\* The users row of user, if there is one.
UserRowOf(us, user) ==
    IF IsNone(user) \/ ~(\E r \in us : r.user_id = Get(user).id) THEN None
    ELSE Some(CHOOSE r \in us : r.user_id = Get(user).id)

\* await upsert_user(user); ev keeps the row the call found
CallUpsertUser(user) ==
    /\ CallStep([kind |-> "upsert_user", user |-> user,
                 before |-> UserRowOf(users, user)])
    /\ Commit(UpsertUser(DB, user, now))

\* await upsert_membership(chat_id, user)
CallUpsertMembership(chat_id, user) ==
    /\ CallStep([kind |-> "upsert_membership", chat_id |-> chat_id, user |-> user])
    /\ Commit(UpsertMembership(DB, chat_id, user, now))

\* await remove_membership(chat_id, user_id)
CallRemoveMembership(chat_id, user_id) ==
    /\ CallStep([kind |-> "remove_membership", chat_id |-> chat_id, user_id |-> user_id])
    /\ Commit(RemoveMembership(DB, chat_id, user_id))

\* await prune_stale(threshold_days)
CallPruneStale(threshold_days) ==
    /\ CallStep([kind |-> "prune_stale", threshold_days |-> threshold_days])
    /\ Commit(PruneStale(DB, threshold_days, now))

NextStore ==
    \/ Tick
    \/ \E user \in Opt(StoreUsers) : CallUpsertUser(user)
    \/ \E c \in Chats, user \in Opt(StoreUsers) : CallUpsertMembership(c, user)
    \/ \E c \in Chats, u \in Users : CallRemoveMembership(c, u)
    \/ \E d \in PruneThresholds : CallPruneStale(d)

SpecStore == Init /\ [][NextStore]_vars

(***************************************************************************)
(* /everyone over a large chat: SpecBroadcast.  The bot starts with a      *)
(* roster of n members of RosterChat in its store, each recorded by an     *)
(* upsert_membership at an instant of its own before the clock's start,    *)
(* and handles one /everyone.                                              *)
(***************************************************************************)
RosterChat == CHOOSE c \in Chats : \A d \in Chats : c <= d
RosterBase == 100
RosterUser(i) == UserObj(RosterBase + i)
RosterTime(i) == T0 - (MaxMembers + 1) + i

\* The store after upsert_membership(RosterChat, RosterUser(i)) at RosterTime(i)
\* for i = 1..n: the rows these calls insert.
Roster(n) ==
    [users |-> {NewUserRow(RosterUser(i), RosterTime(i)) : i \in 1..n},
     membership |-> {NewMembershipRow(RosterChat, RosterBase + i, RosterTime(i)) :
                        i \in 1..n}]

\* The roster sizes: those next to a multiple of the batch size, and the
\* largest.  The admins that /everyone upserts add up to two members to each.
RosterSizes ==
    {n \in 0..MaxMembers :
        n % BATCH_SIZE \in {0, 1, BATCH_SIZE - 1} \/ n = MaxMembers}

InitBroadcast ==
    \E n \in RosterSizes :
        /\ users = Roster(n).users
        /\ membership = Roster(n).membership
        /\ now = T0
        /\ ev = [kind |-> "none"]
        /\ out = <<>>
        /\ observed = {<<RosterChat, RosterBase + i>> : i \in 1..n}
        /\ nev = 0
        /\ tracked = [chat_id |-> None, message_id |-> None, next_index |-> 1,
                      entries |-> <<>>]
        /\ lastId = [c \in Chats |-> 0]
        /\ pinned = {}
        /\ retired = {}
        /\ editFailed = {}
        /\ collected = <<>>
        /\ tasks = {}

NextBroadcast ==
    \E upd \in CommandUpdates("everyone"), role \in RoleAnswers,
       admins \in AdminAnswers \cup {NotCalled} :
        nev = 0 /\ Everyone(upd, role, admins)

SpecBroadcast == InitBroadcast /\ [][NextBroadcast]_vars

(***************************************************************************)
(* The writers of single membership rows, as calls and as the events that  *)
(* make them: SpecFrame.                                                   *)
(***************************************************************************)
NextFrame ==
    \/ Tick
    \/ \E upd \in MessageUpdates : MessageCollector(upd)
    \/ \E upd \in ChatMemberUpdates : ChatMemberUpdateHandler(upd)
    \/ \E c \in Chats, user \in Opt(StoreUsers) : CallUpsertMembership(c, user)
    \/ \E c \in Chats, u \in Users : CallRemoveMembership(c, u)

SpecFrame == Init /\ [][NextFrame]_vars

(***************************************************************************)
(* upsert_membership commit by commit: SpecCommits.  upsert_user commits   *)
(* the users row, then a second connection commits the membership row; the *)
(* call may fail in between.  One call runs at a time.                     *)
(***************************************************************************)
\* Mutant: the membership row is committed first, the users row second.
BeginUpsertMembership_MembershipFirst(chat_id, user) ==
    /\ tasks = {}
    /\ ~IsNone(user)
    /\ nev < MaxCalls
    /\ nev' = nev + 1
    /\ ev' = [kind |-> "upsert_membership", chat_id |-> chat_id, user |-> user]
    /\ users' = users
    /\ membership' = UpsertMembershipRows(membership, chat_id, Get(user).id, now)
    /\ tasks' = {[kind |-> "upsert_membership", chat_id |-> chat_id, user |-> user,
                  ts |-> now]}
    /\ UNCHANGED <<now, out, observed>>
    /\ UNCHANGED listVars

\* upsert_membership(chat_id, user) up to the commit of upsert_user:
\* ts = now_ts(); await upsert_user(user)
BeginUpsertMembership(chat_id, user) ==
    /\ tasks = {}
    /\ ~IsNone(user)
    /\ nev < MaxCalls
    /\ nev' = nev + 1
    /\ ev' = [kind |-> "upsert_membership", chat_id |-> chat_id, user |-> user]
    /\ users' = UpsertUser(DB, user, now).users
    /\ membership' = membership
    /\ tasks' = {[kind |-> "upsert_membership", chat_id |-> chat_id, user |-> user,
                  ts |-> now]}
    /\ UNCHANGED <<now, out, observed>>
    /\ UNCHANGED listVars

\* the INSERT INTO membership and its commit
FinishUpsertMembership ==
    \E t \in tasks :
        /\ t.kind = "upsert_membership"
        /\ membership' = UpsertMembershipRows(membership, t.chat_id, Get(t.user).id, t.ts)
        /\ tasks' = tasks \ {t}
        /\ UNCHANGED <<users, now, ev, out, observed, nev>>
        /\ UNCHANGED listVars

\* the second connection or its INSERT raises: the call ends there
FailUpsertMembership ==
    \E t \in tasks :
        /\ t.kind = "upsert_membership"
        /\ tasks' = tasks \ {t}
        /\ UNCHANGED <<users, membership, now, ev, out, observed, nev>>
        /\ UNCHANGED listVars

NextCommits ==
    \/ Tick
    \/ \E c \in Chats, user \in Opt(StoreUsers) : BeginUpsertMembership(c, user)
    \/ FinishUpsertMembership
    \/ FailUpsertMembership
    \/ \E c \in Chats, u \in Users : tasks = {} /\ CallRemoveMembership(c, u)
    \/ \E d \in PruneThresholds : tasks = {} /\ CallPruneStale(d)

SpecCommits == Init /\ [][NextCommits]_vars

(***************************************************************************)
(* The broadcast of /everyone step by step: SpecPacing.  The handler runs  *)
(* to its first reply_html in one step, and then from await to await; no   *)
(* other handler runs meanwhile.  An awaited send returns and an awaited   *)
(* sleep ends: the fairness of SpecPacing.                                 *)
(***************************************************************************)
\* everyone(update, context) up to the loop over the chunks
EveryoneBegin(upd, role, admins) ==
    /\ nev = 0
    /\ nev' = nev + 1
    /\ UNCHANGED listVars
    /\ UNCHANGED <<now, observed>>
    /\ IF IsNone(upd.effective_chat) \/ IsNone(upd.effective_user)
       THEN /\ role = "raised" /\ admins = NotCalled
            /\ ev' = [kind |-> "everyone_no_chat_or_user"]
            /\ out' = <<>>
            /\ UNCHANGED <<storeVars, tasks>>
       ELSE IF role = "raised"
       THEN /\ admins = NotCalled
            /\ ev' = EveryoneEvent(upd, role, admins)
            /\ out' = <<>>
            /\ UNCHANGED <<storeVars, tasks>>
       ELSE IF ~IsAdminRole(role)
       THEN /\ admins = NotCalled
            /\ ev' = EveryoneEvent(upd, role, admins)
            /\ out' = <<ReplyText(RejectEveryoneText)>>
            /\ UNCHANGED <<storeVars, tasks>>
       ELSE /\ admins \in AdminAnswers
            /\ ev' = EveryoneEvent(upd, role, admins)
            /\ LET db1 == EnsureAdmins(DB, Get(upd.effective_chat), admins, now)
               IN  /\ Commit(db1)
                   /\ \E rows \in GetMembersByChat(db1, Get(upd.effective_chat)) :
                         IF rows = <<>>
                         THEN /\ out' = <<ReplyText(NoMembersText)>>
                              /\ tasks' = tasks
                         ELSE /\ out' = <<>>
                              /\ tasks' = {[kind |-> "everyone", pc |-> "send",
                                            chunks |-> Chunks(Mentions(rows)), k |-> 1]}

\* await update.message.reply_html(text, disable_web_page_preview=True)
EveryoneSend ==
    \E t \in tasks :
        /\ t.kind = "everyone" /\ t.pc = "send"
        /\ out' = Append(out, ReplyHtml(t.chunks[t.k]))
        /\ tasks' = (tasks \ {t}) \cup {[t EXCEPT !.pc = "sleep"]}
        /\ UNCHANGED <<users, membership, now, ev, observed, nev>>
        /\ UNCHANGED listVars

\* Mutant: no pacing delay, the next chunk is sent at once.
EveryoneSleep_Skip ==
    \E t \in tasks :
        /\ t.kind = "everyone" /\ t.pc = "sleep"
        /\ out' = out
        /\ tasks' = IF t.k = Len(t.chunks) THEN tasks \ {t}
                    ELSE (tasks \ {t}) \cup {[t EXCEPT !.pc = "send", !.k = t.k + 1]}
        /\ UNCHANGED <<users, membership, now, ev, observed, nev>>
        /\ UNCHANGED listVars

\* await asyncio.sleep(DELAY_SEC), then the next chunk or the end of the loop
EveryoneSleep ==
    \E t \in tasks :
        /\ t.kind = "everyone" /\ t.pc = "sleep"
        /\ out' = Append(out, Sleep)
        /\ tasks' = IF t.k = Len(t.chunks) THEN tasks \ {t}
                    ELSE (tasks \ {t}) \cup {[t EXCEPT !.pc = "send", !.k = t.k + 1]}
        /\ UNCHANGED <<users, membership, now, ev, observed, nev>>
        /\ UNCHANGED listVars

NextPacing ==
    \/ \E upd \in CommandUpdates("everyone"), role \in RoleAnswers,
          admins \in AdminAnswers \cup {NotCalled} : EveryoneBegin(upd, role, admins)
    \/ EveryoneSend
    \/ EveryoneSleep

SpecPacing ==
    /\ InitBroadcast
    /\ [][NextPacing]_vars
    /\ WF_vars(EveryoneSend)
    /\ WF_vars(EveryoneSleep)

(***************************************************************************)
(* The tracked-list bot (bot.py): SpecList.  A handler is one step.        *)
(* Message ids are the platform's: within a chat every message gets an id  *)
(* higher than the earlier ones, and two chats may use the same id.        *)
(***************************************************************************)
MsgIds == 1..MaxMsgId

PromptText == "Reply to this message to add yourself to the list."
TrackedSetText == "Tracked list message set (in-memory)."

\* s.strip(), the whitespace being the space
RECURSIVE LStrip(_)
LStrip(s) == IF s # <<>> /\ Head(s) = " " THEN LStrip(Tail(s)) ELSE s

RECURSIVE RStrip(_)
RStrip(s) == IF s # <<>> /\ s[Len(s)] = " " THEN RStrip(SubSeq(s, 1, Len(s) - 1)) ELSE s

Strip(s) == RStrip(LStrip(s))

\* user.username or f"{(user.first_name or '')} {(user.last_name or '')}".strip()
\*   or f"user{user.id}"
ListDisplay(user) ==
    StrOr(user.username,
          StrOr(Strip(user.first_name \o <<" ">> \o user.last_name),
                SyntheticName(user.id)))

\* "\n".join(lines)
RECURSIVE JoinLines(_)
JoinLines(lines) ==
    IF lines = <<>> THEN <<>>
    ELSE IF Len(lines) = 1 THEN lines[1]
    ELSE lines[1] \o <<"\n">> \o JoinLines(Tail(lines))

\* lines = [f"{e[0]}. {e[2]}" for e in tracked["entries"]]
ListLines(entries) ==
    [i \in 1..Len(entries) |-> IntStr(entries[i][1]) \o <<".", " ">> \o entries[i][3]]

\* body = "Current list:\n" + "\n".join(lines) if lines else "Current list: (empty)"
ListBody(entries) ==
    IF ListLines(entries) # <<>>
    THEN <<"C", "u", "r", "r", "e", "n", "t", " ", "l", "i", "s", "t", ":", "\n">>
             \o JoinLines(ListLines(entries))
    ELSE <<"C", "u", "r", "r", "e", "n", "t", " ", "l", "i", "s", "t", ":", " ",
           "(", "e", "m", "p", "t", "y", ")">>

SendPrompt(chat_id, message_id) ==
    [call |-> "reply_text", text |-> PromptText, chat_id |-> chat_id,
     message_id |-> message_id]
Pin(chat_id, message_id, ok) ==
    [call |-> "pin", chat_id |-> chat_id, message_id |-> message_id, ok |-> ok]
EditMessageText(body, chat_id, message_id, ok) ==
    [call |-> "edit_message_text", text |-> body, chat_id |-> chat_id,
     message_id |-> message_id, ok |-> ok]

\* Mutant: the reset leaves next_index as it was.
ResetTracked_KeepIndex(t, chat_id, message_id) ==
    [chat_id |-> Some(chat_id), message_id |-> Some(message_id),
     next_index |-> t.next_index, entries |-> <<>>]

\* Mutant: the reset without tracked["entries"].clear().
ResetTracked_KeepEntries(t, chat_id, message_id) ==
    [chat_id |-> Some(chat_id), message_id |-> Some(message_id), next_index |-> 1,
     entries |-> t.entries]

\* The four assignments of start_command: the record after the reset.
ResetTracked(t, chat_id, message_id) ==
    [chat_id |-> Some(chat_id), message_id |-> Some(message_id), next_index |-> 1,
     entries |-> <<>>]

\* start_command(update, context), sent in chat chat_id; the platform gives the
\* prompt the id message_id and answers the pin with pin_ok.
StartCommand(chat_id, message_id, pin_ok) ==
    /\ nev < MaxUpdates
    /\ nev' = nev + 1
    /\ message_id > lastId[chat_id]
    /\ lastId' = [lastId EXCEPT ![chat_id] = message_id]
    /\ ev' = [kind |-> "start", chat_id |-> chat_id, message_id |-> message_id,
              pin_ok |-> pin_ok]
    /\ tracked' = ResetTracked(tracked, chat_id, message_id)
    /\ pinned' = IF pin_ok THEN pinned \cup {<<chat_id, message_id>>} ELSE pinned
    /\ retired' = IF IsNone(tracked.chat_id) THEN retired
                  ELSE retired \cup {[chat_id |-> Get(tracked.chat_id),
                                      message_id |-> Get(tracked.message_id),
                                      dropped |-> Len(tracked.entries)]}
    /\ editFailed' = {}
    /\ collected' = <<>>
    /\ out' = <<SendPrompt(chat_id, message_id), Pin(chat_id, message_id, pin_ok),
                ReplyText(TrackedSetText)>>
    /\ UNCHANGED trackerVars
    /\ UNCHANGED tasks

\* A text message that is not a command: its chat, the id of the message it
\* replies to (if it is a reply) and its sender.
TextMessages ==
    [chat_id : Chats, reply_to_message : Opt(MsgIds),
     from_user : {UserObj(u) : u \in Users}]

\* Whether reply_handler takes msg for a reply to the tracked message.
TargetsTracked(t, msg) ==
    /\ ~IsNone(msg) /\ ~IsNone(Get(msg).reply_to_message)
    /\ ~IsNone(t.chat_id)
    /\ ~(Get(msg).chat_id # Get(t.chat_id)
          \/ Get(Get(msg).reply_to_message) # Get(t.message_id))

\* Mutant: a user who has an entry gets no second one.
AppendEntry_Dedup(t, user) ==
    IF \E i \in 1..Len(t.entries) : t.entries[i][2] = user.id
    THEN t
    ELSE [t EXCEPT !.entries = Append(t.entries, <<t.next_index, user.id, ListDisplay(user)>>),
                   !.next_index = t.next_index + 1]

\* entries.append((idx, user.id, display)); next_index += 1
AppendEntry(t, user) ==
    [t EXCEPT !.entries = Append(t.entries, <<t.next_index, user.id, ListDisplay(user)>>),
              !.next_index = t.next_index + 1]

\* Mutant: an edit that raises takes the appended entry back.
ReplyHandler_Rollback(msg, edit_ok) ==
    /\ nev < MaxUpdates
    /\ nev' = nev + 1
    /\ UNCHANGED <<lastId, pinned, retired, editFailed, collected>>
    /\ UNCHANGED <<users, membership, now, observed, tasks>>
    /\ ev' = [kind |-> "reply", msg |-> msg, edit_ok |-> edit_ok]
    /\ IF TargetsTracked(tracked, msg)
       THEN /\ tracked' = IF edit_ok THEN AppendEntry(tracked, Get(msg).from_user)
                          ELSE tracked
            /\ out' = <<EditMessageText(
                           ListBody(AppendEntry(tracked, Get(msg).from_user).entries),
                           Get(tracked.chat_id), Get(tracked.message_id), edit_ok)>>
       ELSE /\ edit_ok
            /\ tracked' = tracked
            /\ out' = <<>>

\* reply_handler(update, context); msg is update.message, edit_ok the
\* platform's answer to edit_message_text
ReplyHandler(msg, edit_ok) ==
    /\ nev < MaxUpdates
    /\ nev' = nev + 1
    /\ UNCHANGED <<lastId, pinned, retired>>
    /\ UNCHANGED trackerVars
    /\ UNCHANGED tasks
    /\ IF TargetsTracked(tracked, msg)
       THEN /\ ev' = [kind |-> "reply", msg |-> msg, edit_ok |-> edit_ok]
            /\ tracked' = AppendEntry(tracked, Get(msg).from_user)
            /\ out' = <<EditMessageText(ListBody(tracked'.entries), Get(tracked'.chat_id),
                                        Get(tracked'.message_id), edit_ok)>>
            /\ editFailed' = IF edit_ok THEN editFailed ELSE editFailed \cup {tracked.next_index}
            /\ collected' = Append(collected, <<Get(msg).chat_id,
                                                Get(Get(msg).reply_to_message)>>)
       ELSE /\ edit_ok            \* no edit is attempted: nothing to answer
            /\ ev' = [kind |-> "reply", msg |-> msg, edit_ok |-> edit_ok]
            /\ tracked' = tracked
            /\ out' = <<>>
            /\ editFailed' = editFailed
            /\ collected' = collected

NextList ==
    \/ \E c \in Chats, m \in MsgIds, pin_ok \in BOOLEAN : StartCommand(c, m, pin_ok)
    \/ \E msg \in Opt(TextMessages), edit_ok \in BOOLEAN :
          ReplyHandler(msg, edit_ok)

SpecList == Init /\ [][NextList]_vars

(***************************************************************************)
(* The tracked-list bot with handlers that interleave at their awaits:     *)
(* SpecAwait.  A handler runs from one await to the next in one step, as   *)
(* a coroutine does; a task is a handler suspended at an await.  /start   *)
(* is sent in one chat, replies arrive from every chat.                    *)
(***************************************************************************)
Suspend(t) == tasks \cup {t}
Resume(t, t2) == (tasks \ {t}) \cup {t2}

\* start_command up to the await of the prompt:
\* msg = await update.message.reply_text(...)
StartSend(chat_id, message_id) ==
    /\ nev < MaxHandlers
    /\ nev' = nev + 1
    /\ message_id > lastId[chat_id]
    /\ lastId' = [lastId EXCEPT ![chat_id] = message_id]
    /\ ev' = [kind |-> "start_send"]
    /\ out' = <<SendPrompt(chat_id, message_id)>>
    /\ tasks' = Suspend([id |-> nev + 1, kind |-> "start", pc |-> "pin",
                         chat_id |-> chat_id, message_id |-> message_id])
    /\ UNCHANGED <<tracked, pinned, retired, editFailed, collected>>
    /\ UNCHANGED trackerVars

\* start_command from the prompt's return to the return of msg.pin()
StartPin(pin_ok) ==
    \E t \in tasks :
        /\ t.kind = "start" /\ t.pc = "pin"
        /\ ev' = [kind |-> "start_pin"]
        /\ out' = <<Pin(t.chat_id, t.message_id, pin_ok)>>
        /\ pinned' = IF pin_ok THEN pinned \cup {<<t.chat_id, t.message_id>>} ELSE pinned
        /\ tasks' = Resume(t, [t EXCEPT !.pc = "reset"])
        /\ UNCHANGED <<tracked, lastId, retired, editFailed, collected, nev>>
        /\ UNCHANGED trackerVars

\* Mutant: the chat id and the message id are assigned when the pin returns,
\* next_index and the entries only after the confirmation is sent.
StartReset_IdsFirst ==
    \E t \in tasks :
        /\ t.kind = "start" /\ t.pc = "reset"
        /\ ev' = [kind |-> "start_reset"]
        /\ tracked' = [tracked EXCEPT !.chat_id = Some(t.chat_id),
                                      !.message_id = Some(t.message_id)]
        /\ retired' = retired
        /\ editFailed' = editFailed
        /\ collected' = collected
        /\ out' = <<ReplyText(TrackedSetText)>>
        /\ tasks' = Resume(t, [t EXCEPT !.pc = "confirm"])
        /\ UNCHANGED <<lastId, pinned, nev>>
        /\ UNCHANGED trackerVars

\* start_command from the pin's return (or its exception) to the await of
\* the confirmation: the four assignments, then reply_text
StartReset ==
    \E t \in tasks :
        /\ t.kind = "start" /\ t.pc = "reset"
        /\ ev' = [kind |-> "start_reset"]
        /\ tracked' = ResetTracked(tracked, t.chat_id, t.message_id)
        /\ retired' = IF IsNone(tracked.chat_id) THEN retired
                      ELSE retired \cup {[chat_id |-> Get(tracked.chat_id),
                                          message_id |-> Get(tracked.message_id),
                                          dropped |-> Len(tracked.entries)]}
        /\ editFailed' = {}
        /\ collected' = <<>>
        /\ out' = <<ReplyText(TrackedSetText)>>
        /\ tasks' = Resume(t, [t EXCEPT !.pc = "confirm"])
        /\ UNCHANGED <<lastId, pinned, nev>>
        /\ UNCHANGED trackerVars

\* the confirmation is sent: start_command returns
StartReturn ==
    \E t \in tasks :
        /\ t.kind = "start" /\ t.pc = "confirm"
        /\ ev' = [kind |-> "start_return"]
        /\ out' = <<>>
        /\ tasks' = tasks \ {t}
        /\ UNCHANGED <<tracked, lastId, pinned, retired, editFailed, collected, nev>>
        /\ UNCHANGED trackerVars

\* reply_handler up to the await of edit_message_text, whose arguments are
\* taken from tracked before the call suspends
ReplyAppend(msg) ==
    /\ nev < MaxHandlers
    /\ nev' = nev + 1
    /\ ev' = [kind |-> "reply_append"]
    /\ out' = <<>>
    /\ UNCHANGED <<lastId, pinned, retired, editFailed>>
    /\ UNCHANGED trackerVars
    /\ IF TargetsTracked(tracked, msg)
       THEN /\ tracked' = AppendEntry(tracked, Get(msg).from_user)
            /\ collected' = Append(collected, <<Get(msg).chat_id,
                                                Get(Get(msg).reply_to_message)>>)
            /\ tasks' = Suspend([id |-> nev + 1, kind |-> "reply", pc |-> "edit",
                                 body |-> ListBody(tracked'.entries),
                                 chat_id |-> Get(tracked'.chat_id),
                                 message_id |-> Get(tracked'.message_id),
                                 index |-> tracked.next_index])
       ELSE UNCHANGED <<tracked, collected, tasks>>

\* edit_message_text returns or raises: reply_handler returns
ReplyEdited(edit_ok) ==
    \E t \in tasks :
        /\ t.kind = "reply" /\ t.pc = "edit"
        /\ ev' = [kind |-> "reply_edited"]
        /\ out' = <<EditMessageText(t.body, t.chat_id, t.message_id, edit_ok)>>
        /\ editFailed' = IF ~edit_ok /\ tracked.chat_id = Some(t.chat_id)
                               /\ tracked.message_id = Some(t.message_id)
                         THEN editFailed \cup {t.index} ELSE editFailed
        /\ tasks' = tasks \ {t}
        /\ UNCHANGED <<tracked, lastId, pinned, retired, collected, nev>>
        /\ UNCHANGED trackerVars

NextAwait ==
    \/ \E m \in MsgIds : StartSend(RosterChat, m)
    \/ \E pin_ok \in BOOLEAN : StartPin(pin_ok)
    \/ StartReset
    \/ StartReturn
    \/ \E msg \in Opt(TextMessages) : ReplyAppend(msg)
    \/ \E edit_ok \in BOOLEAN : ReplyEdited(edit_ok)

SpecAwait == Init /\ [][NextAwait]_vars

(***************************************************************************)
(* The two display names of one user: SpecNames.  The same user replies to *)
(* the tracked message of bot.py and is stored by upsert_user of           *)
(* botfinal.py; the users differ in which of username, first name and last *)
(* name they carry, and the id tells which.                                *)
(***************************************************************************)
NameUsers ==
    {[id |-> 1 + 4 * f + 2 * l + u,
      first_name |-> IF f = 1 THEN <<"F">> ELSE <<>>,
      last_name |-> IF l = 1 THEN <<"L">> ELSE <<>>,
      username |-> IF u = 1 THEN <<"u">> ELSE <<>>] : f \in {0, 1}, l \in {0, 1}, u \in {0, 1}}

NameMessages ==
    [chat_id : {RosterChat}, reply_to_message : {Some(m) : m \in MsgIds},
     from_user : NameUsers]

NextNames ==
    \/ \E m \in MsgIds, pin_ok \in BOOLEAN : StartCommand(RosterChat, m, pin_ok)
    \/ \E msg \in NameMessages, edit_ok \in BOOLEAN : ReplyHandler(Some(msg), edit_ok)
    \/ \E user \in NameUsers : CallUpsertUser(Some(user))

SpecNames == Init /\ [][NextNames]_vars

(***************************************************************************)
(* Properties of the membership tracker.                                   *)
(***************************************************************************)
HasRow(ms, c, u) == \E r \in ms : r.chat_id = c /\ r.user_id = u

\* The number of rows a query result holds for user u.
Occurrences(rows, u) == Cardinality({i \in 1..Len(rows) : rows[i].user_id = u})

\* The user ids of the mentions sent by the calls in o, in order.
RECURSIVE MentionedIds(_)
MentionedIds(o) ==
    IF o = <<>> THEN <<>>
    ELSE (IF Head(o).call = "reply_html"
          THEN [i \in 1..Len(Head(o).mentions) |-> Head(o).mentions[i].user_id]
          ELSE <<>>) \o MentionedIds(Tail(o))

SeqCount(s, x) == Cardinality({i \in 1..Len(s) : s[i] = x})

HandlerStep == nev' = nev + 1

\* C1: a user observed in a chat (by a message or by a present status) and
\* not removed since by a left/kicked update or by a prune is returned exactly
\* once by get_members_by_chat for that chat, whatever order the query takes.
C1_ObservedListedOnce ==
    \A c \in Chats : \A rows \in GetMembersByChat(DB, c) :
        \A u \in Users : <<c, u>> \in observed => Occurrences(rows, u) = 1

\* An observed pair that has just survived another user's leaving its chat.
C1_Witness ==
    /\ ev.kind = "chat_member_update"
    /\ ~IsNone(ev.chat_member) /\ ~IsNone(ev.effective_chat)
    /\ ~IsNone(Get(ev.chat_member).new_chat_member)
    /\ Get(Get(ev.chat_member).new_chat_member).status = "left"
    /\ \E u \in Users : /\ <<Get(ev.effective_chat), u>> \in observed
                        /\ u # Get(Get(ev.chat_member).new_chat_member).user.id

\* C4: /everyone or /prune by a user whose role is neither administrator nor
\* creator sends exactly the rejection reply and leaves both tables as they
\* were; when the role lookup raises, nothing is sent and the tables are left
\* as they were.
C4_NonAdminRejected ==
    [][(HandlerStep /\ ev'.kind \in {"everyone", "prune"}
           /\ ev'.role \notin {"administrator", "creator"})
       => /\ UNCHANGED <<users, membership>>
          /\ out' = IF ev'.role = "raised" THEN <<>>
                    ELSE IF ev'.kind = "everyone"
                    THEN <<ReplyText(RejectEveryoneText)>>
                    ELSE <<ReplyText(RejectPruneText)>>]_vars

\* A plain member's /prune was rejected while a stale row sat in the table.
C4_Witness ==
    /\ ev.kind = "prune" /\ ev.role = "member"
    /\ out = <<ReplyText(RejectPruneText)>>
    /\ \E r \in membership : r.last_seen < now - STALE_DAYS * DAY_SECONDS

\* C9: a membership-change update is handled through whichever of chat_member
\* and my_chat_member is populated; a new status member, creator or
\* administrator leaves the (chat, user) row present, left or kicked leaves it
\* absent, any other status leaves both tables unchanged, and so does an
\* update with neither shape populated.
C9_StatusDispatch ==
    [][(HandlerStep /\ ev'.kind = "chat_member_update")
       => LET cmo == IF ~IsNone(ev'.chat_member) THEN ev'.chat_member
                     ELSE ev'.my_chat_member
          IN  IF IsNone(cmo) THEN UNCHANGED <<users, membership>>
              ELSE (~IsNone(ev'.effective_chat) /\ ~IsNone(Get(cmo).new_chat_member))
                   => LET c == Get(ev'.effective_chat)
                          u == Get(Get(cmo).new_chat_member).user.id
                          st == Get(Get(cmo).new_chat_member).status
                      IN  /\ st \in {"member", "creator", "administrator"}
                                => HasRow(membership', c, u)
                          /\ st \in {"left", "kicked"} => ~HasRow(membership', c, u)
                          /\ st \notin {"member", "creator", "administrator",
                                        "left", "kicked"}
                                => UNCHANGED <<users, membership>>]_vars

\* The bot's own membership (my_chat_member) turned to administrator in a chat
\* where it had no row, and the row is there.
C9_Witness ==
    /\ ev.kind = "chat_member_update"
    /\ IsNone(ev.chat_member) /\ ~IsNone(ev.my_chat_member)
    /\ ~IsNone(ev.effective_chat)
    /\ ~IsNone(Get(ev.my_chat_member).new_chat_member)
    /\ Get(Get(ev.my_chat_member).new_chat_member).status = "administrator"
    /\ HasRow(membership, Get(ev.effective_chat),
              Get(Get(ev.my_chat_member).new_chat_member).user.id)

\* The users get_members_by_chat returns for chat c.
KnownMembers(db, c) == {p[1].user_id : p \in JoinedPairs(db, c)}

\* C10: in an admin's /everyone whose fetch of the admin list raises, the
\* handler goes on: with no member known before the command it sends the "no
\* known members" reply, otherwise it sends mention batches that name exactly
\* the members known before the command, each once, and nothing else.
C10_AdminFetchFailureSwallowed ==
    [][(HandlerStep /\ ev'.kind = "everyone"
           /\ ev'.role \in {"administrator", "creator"}
           /\ ev'.admins.result = "raised")
       => LET before == KnownMembers(DB, ev'.chat)
          IN  IF before = {} THEN out' = <<ReplyText(NoMembersText)>>
              ELSE /\ \A i \in 1..Len(out') : out'[i].call \in {"reply_html", "sleep"}
                   /\ \A u \in before : SeqCount(MentionedIds(out'), u) = 1
                   /\ \A i \in 1..Len(MentionedIds(out')) :
                          MentionedIds(out')[i] \in before]_vars

\* An admin's /everyone whose admin fetch raised broadcast to a known member.
C10_Witness ==
    /\ ev.kind = "everyone" /\ ev.role = "administrator"
    /\ ev.admins.result = "raised"
    /\ Len(out) > 0 /\ out[1].call = "reply_html"
    /\ Len(out[1].mentions) > 0

\* The reply_html calls among the calls in o.
Batches(o) == SelectSeq(o, LAMBDA x : x.call = "reply_html")

\* C5: an admin's /everyone that reads n >= 1 members sends ceil(n/25) mention
\* batches; each but the last holds 25 mentions, the last holds
\* n - 25*(ceil(n/25) - 1); every member read is mentioned once, in one batch.
C5_BatchPartition ==
    (ev.kind = "everyone" /\ ev.role \in {"administrator", "creator"})
    => LET known == KnownMembers(DB, ev.chat)
           n == Cardinality(known)
           batches == Batches(out)
           nb == (n + 24) \div 25
       IN  n >= 1
           => /\ Len(batches) = nb
              /\ \A k \in 1..(nb - 1) : Len(batches[k].mentions) = 25
              /\ Len(batches[nb].mentions) = n - 25 * (nb - 1)
              /\ \A u \in known : SeqCount(MentionedIds(out), u) = 1
              /\ Len(MentionedIds(out)) = n

\* 57 members were read: the batches hold 25, 25 and 7 mentions.
C5_Witness ==
    /\ ev.kind = "everyone" /\ ev.role = "administrator"
    /\ Cardinality(KnownMembers(DB, ev.chat)) = 57
    /\ Len(Batches(out)) = 3
    /\ Len(Batches(out)[1].mentions) = 25
    /\ Len(Batches(out)[2].mentions) = 25
    /\ Len(Batches(out)[3].mentions) = 7

(***************************************************************************)
(* Properties of the store's operations (SpecStore).                       *)
(***************************************************************************)
\* The membership row of (c, u); used where HasRow holds.
RowOf(ms, c, u) == CHOOSE r \in ms : r.chat_id = c /\ r.user_id = u

\* C2: upsert_membership on a (chat, user) that has a row keeps the row's
\* first_seen and sets its last_seen to the call's timestamp; on a (chat,
\* user) with no row it creates the row with both set to the call's timestamp.
\* So over upserts with no removal between them first_seen stays the first
\* call's timestamp and last_seen is the latest call's.
C2_FirstSeenKept ==
    [][(HandlerStep /\ ev'.kind = "upsert_membership" /\ ~IsNone(ev'.user))
       => LET c == ev'.chat_id
              u == Get(ev'.user).id
          IN  /\ HasRow(membership', c, u)
              /\ RowOf(membership', c, u).last_seen = now
              /\ RowOf(membership', c, u).first_seen =
                     IF HasRow(membership, c, u)
                     THEN RowOf(membership, c, u).first_seen ELSE now]_vars

\* A second upsert, later than the first: first_seen is older than last_seen.
C2_Witness ==
    /\ ev.kind = "upsert_membership" /\ ~IsNone(ev.user)
    /\ HasRow(membership, ev.chat_id, Get(ev.user).id)
    /\ RowOf(membership, ev.chat_id, Get(ev.user).id).first_seen < now
    /\ RowOf(membership, ev.chat_id, Get(ev.user).id).last_seen = now

IsUpsertOf(e, c, u) ==
    e.kind = "upsert_membership" /\ e.chat_id = c /\ ~IsNone(e.user) /\ Get(e.user).id = u

\* C3: after remove_membership(c, u) no result of get_members_by_chat(c) holds
\* u; a user who is not in a chat's members stays out of them until an upsert
\* for that (chat, user); and remove_membership on an absent row leaves both
\* tables as they were.
C3_RemoveExcludes ==
    [][/\ (HandlerStep /\ ev'.kind = "remove_membership")
          => /\ \A rows \in GetMembersByChat(DB', ev'.chat_id) :
                    Occurrences(rows, ev'.user_id) = 0
             /\ ~HasRow(membership, ev'.chat_id, ev'.user_id)
                    => UNCHANGED <<users, membership>>
       /\ \A c \in Chats, u \in Users :
             (u \notin KnownMembers(DB, c) /\ ~(HandlerStep /\ IsUpsertOf(ev', c, u)))
                => u \notin KnownMembers(DB', c)]_vars

\* remove_membership took a member out of a chat that keeps another member.
C3_Witness ==
    /\ ev.kind = "remove_membership"
    /\ \E u \in users : u.user_id = ev.user_id
    /\ ~HasRow(membership, ev.chat_id, ev.user_id)
    /\ \E r \in membership : r.chat_id = ev.chat_id

\* C6: prune_stale(d) deletes exactly the membership rows with last_seen <
\* now - d*86400, in every chat, and leaves in users exactly the rows of the
\* users that keep a membership row; with d = 0 the rows last seen before now
\* go and the rows last seen now stay.
C6_PruneExact ==
    [][(HandlerStep /\ ev'.kind = "prune_stale")
       => /\ membership' =
                 {r \in membership : r.last_seen >= now - ev'.threshold_days * 86400}
          /\ users' = {u \in users : \E r \in membership' : r.user_id = u.user_id}
          /\ \A r \in membership' : \E u \in users' : u.user_id = r.user_id]_vars

\* prune_stale(0) has run, later than the start: a row last seen now is in the
\* table and one of the users has no users row.
C6_Witness ==
    /\ ev.kind = "prune_stale" /\ ev.threshold_days = 0
    /\ \E r \in membership : r.last_seen = now
    /\ \E u \in Users : (\A x \in users : x.user_id # u)
    /\ now > T0

(***************************************************************************)
(* Properties of the tracked-list bot.                                     *)
(***************************************************************************)
ListHeader == <<"C", "u", "r", "r", "e", "n", "t", " ", "l", "i", "s", "t", ":", "\n">>

Edits(o) == {i \in 1..Len(o) : o[i].call = "edit_message_text"}

\* The message e.msg replies to the message the record t tracks.
RepliesToTracked(t, e) ==
    /\ e.msg # None
    /\ e.msg[1].reply_to_message # None
    /\ t.chat_id = <<e.msg[1].chat_id>>
    /\ t.message_id = e.msg[1].reply_to_message

\* C7: in the tracked-list bot every reply to the currently tracked message
\* (same chat id, same message id) appends exactly one entry, numbered
\* next_index, keeps the earlier entries and asks for one edit of the tracked
\* message, also when the replier already has an entry: two replies of the
\* same user render the lines "1. A" and "2. A".  A reply to any other
\* message, a message that is no reply, and any reply before the first
\* /start leave entries and next_index as they were and ask for no edit.
C7_ReplyAppendsOne ==
    [][(HandlerStep /\ ev'.kind = "reply") =>
         IF RepliesToTracked(tracked, ev')
         THEN /\ Len(tracked'.entries) = Len(tracked.entries) + 1
              /\ SubSeq(tracked'.entries, 1, Len(tracked.entries)) = tracked.entries
              /\ tracked'.entries[Len(tracked'.entries)][1] = tracked.next_index
              /\ tracked'.entries[Len(tracked'.entries)][2] = ev'.msg[1].from_user.id
              /\ tracked'.next_index = tracked.next_index + 1
              /\ tracked'.chat_id = tracked.chat_id
              /\ tracked'.message_id = tracked.message_id
              /\ Len(out') = 1 /\ Edits(out') = {1}
              /\ out'[1].chat_id = tracked.chat_id[1]
              /\ out'[1].message_id = tracked.message_id[1]
              /\ (/\ Len(tracked'.entries) = 2
                  /\ tracked'.entries[1][2] = tracked'.entries[2][2])
                 => out'[1].text = ListHeader
                        \o <<"1", ".", " ">> \o tracked'.entries[1][3] \o <<"\n">>
                        \o <<"2", ".", " ">> \o tracked'.entries[1][3]
         ELSE /\ tracked' = tracked
              /\ Edits(out') = {}]_vars

\* Two replies of user 1 ("A&" "B", no username) to the tracked message: the
\* edit shows "1. A& B" and "2. A& B".
C7_Witness ==
    /\ ev.kind = "reply"
    /\ Len(tracked.entries) = 2
    /\ tracked.entries[1][2] = 1 /\ tracked.entries[2][2] = 1
    /\ Len(out) = 1
    /\ out[1].text = ListHeader \o <<"1", ".", " ", "A", "&", " ", "B", "\n",
                                     "2", ".", " ", "A", "&", " ", "B">>

\* C8: when start_command has run, whether the pin succeeded or raised, the
\* tracked record names the prompt just sent (its chat id and message id) and
\* has no entries and next_index 1, so the entries collected before are gone;
\* the prompt is a message other than the one tracked before, and a later
\* reply to a prompt that was tracked before changes nothing and asks for no
\* edit.
C8_StartResets ==
    [][/\ (HandlerStep /\ ev'.kind = "start") =>
            /\ tracked' = [chat_id |-> <<ev'.chat_id>>, message_id |-> <<ev'.message_id>>,
                           next_index |-> 1, entries |-> <<>>]
            /\ out'[1].call = "reply_text"
            /\ out'[1].chat_id = ev'.chat_id /\ out'[1].message_id = ev'.message_id
            /\ <<tracked'.chat_id, tracked'.message_id>> # <<tracked.chat_id, tracked.message_id>>
       /\ (/\ HandlerStep /\ ev'.kind = "reply"
           /\ ev'.msg # None /\ ev'.msg[1].reply_to_message # None
           /\ \E r \in retired : /\ r.chat_id = ev'.msg[1].chat_id
                                 /\ <<r.message_id>> = ev'.msg[1].reply_to_message)
          => (tracked' = tracked /\ Edits(out') = {})]_vars

\* A /start whose pin raised dropped a collected entry, and a reply to the
\* prompt tracked before has arrived since: the list is still empty.
C8_Witness ==
    /\ ev.kind = "reply"
    /\ ev.msg # None /\ ev.msg[1].reply_to_message # None
    /\ \E r \in retired : /\ r.dropped > 0
                          /\ r.chat_id = ev.msg[1].chat_id
                          /\ <<r.message_id>> = ev.msg[1].reply_to_message
                          /\ tracked.chat_id = <<r.chat_id>>
    /\ <<tracked.chat_id[1], tracked.message_id[1]>> \notin pinned
    /\ tracked.entries = <<>> /\ tracked.next_index = 1

\* C11: in an admin's /everyone whose fetch of the admin list succeeds, every
\* admin the platform returned is mentioned in the broadcast of that command,
\* exactly once, also an admin who had no membership row when the command
\* started, and has a membership row of the chat when the command ends.
C11_AdminsMentioned ==
    [][(HandlerStep /\ ev'.kind = "everyone"
           /\ ev'.role \in {"administrator", "creator"}
           /\ ev'.admins.result = "ok")
       => \A i \in 1..Len(ev'.admins.list) :
              /\ SeqCount(MentionedIds(out'), ev'.admins.list[i].user.id) = 1
              /\ HasRow(membership', ev'.chat, ev'.admins.list[i].user.id)
              /\ ev'.admins.list[i].user.id \in KnownMembers(DB', ev'.chat)]_vars

\* The first event is an admin's /everyone: the store was empty, the platform
\* returned two admins, and both are mentioned and have a row.
C11_Witness ==
    /\ nev = 1 /\ ev.kind = "everyone" /\ ev.role = "creator"
    /\ ev.admins.result = "ok" /\ Len(ev.admins.list) = 2
    /\ observed = {}
    /\ \A i \in 1..2 : /\ SeqCount(MentionedIds(out), ev.admins.list[i].user.id) = 1
                       /\ HasRow(membership, ev.chat, ev.admins.list[i].user.id)

\* The broadcast of the /everyone in ev has ended.
BroadcastEnded == ev.kind = "everyone" /\ nev = 1 /\ tasks = {}

\* C12: in the broadcast of /everyone the batch messages and the pacing
\* delays alternate, a batch first, so two consecutive batch messages have a
\* delay between them; the broadcast that has begun ends, with ceil(n/25)
\* batch messages sent for the n known members, the calls being those of the
\* handler taken as a whole; and nothing is sent once it has ended.
C12_PacedBroadcast ==
    /\ [](\A i \in 1..Len(out) :
             out[i].call \in {"reply_html", "sleep"}
                 => out[i].call = IF i % 2 = 1 THEN "reply_html" ELSE "sleep")
    /\ [](\A i, j \in 1..Len(out) :
             (i < j /\ out[i].call = "reply_html" /\ out[j].call = "reply_html")
                 => \E k \in (i + 1)..(j - 1) : out[k].call = "sleep")
    /\ (tasks # {}) ~>
           (/\ BroadcastEnded
            /\ Len(Batches(out)) = (Cardinality(KnownMembers(DB, ev.chat)) + 24) \div 25
            /\ out \in {o.out : o \in EveryoneOutcomes(DB, ev.chat, ev.admins, now)})
    /\ [][BroadcastEnded => out' = out]_vars

\* A broadcast to 57 members has ended: batch, delay, batch, delay, batch of
\* seven, delay.
C12_Witness ==
    /\ BroadcastEnded
    /\ Len(out) = 6
    /\ out[1].call = "reply_html" /\ out[2].call = "sleep"
    /\ out[3].call = "reply_html" /\ out[4].call = "sleep"
    /\ out[5].call = "reply_html" /\ Len(out[5].mentions) = 7
    /\ out[6].call = "sleep"

\* "Current list:" and, for each entry from the i-th on, a line break and
\* "<index>. <name>".
RECURSIVE RenderedFrom(_, _)
RenderedFrom(entries, i) ==
    IF i > Len(entries) THEN <<>>
    ELSE <<"\n">> \o IntStr(entries[i][1]) \o <<".", " ">> \o entries[i][3]
             \o RenderedFrom(entries, i + 1)

Rendered(entries) ==
    <<"C", "u", "r", "r", "e", "n", "t", " ", "l", "i", "s", "t", ":">>
        \o RenderedFrom(entries, 1)

\* C13: when the edit of the tracked message raises in reply_handler, the
\* entry stays appended and next_index stays incremented, and the handler
\* makes no other outbound call (nothing goes to the user); the next edit
\* that succeeds carries the whole list, the entries whose edit raised
\* included.
C13_EditFailureKeepsEntry ==
    [][(HandlerStep /\ ev'.kind = "reply" /\ RepliesToTracked(tracked, ev')) =>
         /\ ~ev'.edit_ok =>
               /\ Len(tracked'.entries) = Len(tracked.entries) + 1
               /\ tracked'.entries =
                     Append(tracked.entries,
                            <<tracked.next_index, ev'.msg[1].from_user.id,
                              tracked'.entries[Len(tracked'.entries)][3]>>)
               /\ tracked'.next_index = tracked.next_index + 1
               /\ Len(out') = 1 /\ out'[1].call = "edit_message_text" /\ ~out'[1].ok
         /\ ev'.edit_ok =>
               /\ out'[1].text = Rendered(tracked'.entries)
               /\ \A i \in editFailed :
                     /\ i \in 1..Len(tracked'.entries)
                     /\ tracked'.entries[i] = tracked.entries[i]
                     /\ tracked'.entries[i][1] = i]_vars

\* An edit has succeeded after the edit for entry 1 had raised: it shows both
\* entries.
C13_Witness ==
    /\ ev.kind = "reply" /\ ev.edit_ok
    /\ Len(out) = 1 /\ out[1].call = "edit_message_text" /\ out[1].ok
    /\ Len(tracked.entries) = 2
    /\ out[1].text = Rendered(tracked.entries)
    /\ editFailed = {1}

\* C14: the display name reply_handler of bot.py gives a replier and the name
\* upsert_user of botfinal.py stores for the same user come from the same
\* field (or are both the synthetic "user<id>"), whichever of username, first
\* name and last name the user has: up to surrounding blanks they are the
\* same text.
C14_SamePrecedence ==
    \A i \in 1..Len(tracked.entries) : \A r \in users :
        tracked.entries[i][2] = r.user_id => tracked.entries[i][3] = Strip(r.name)

\* A call of upsert_user that follows a call of upsert_user with the same
\* user, nothing but the clock having moved in between.
UpsertUserAgain ==
    /\ HandlerStep /\ ev'.kind = "upsert_user" /\ ev'.user # None
    /\ ev.kind = "upsert_user" /\ ev.user = ev'.user

\* C15 as stated: upsert_user(None) leaves the store unchanged, a second
\* upsert_user with the same user leaves the users table as the first one
\* left it, no user id ever has two rows, and the membership table is never
\* touched.
C15_UpsertUserIdempotent ==
    [][(HandlerStep /\ ev'.kind = "upsert_user") =>
         /\ membership' = membership
         /\ ev'.user = None => users' = users
         /\ ev'.user # None =>
               Cardinality({r \in users' : r.user_id = ev'.user[1].id}) = 1
         /\ UpsertUserAgain => users' = users]_vars

\* C15, amended: upsert_user(None) leaves the store unchanged; a second
\* upsert_user with the same user leaves the users table as the first one
\* left it except for updated_at of that user's row, which becomes the time of
\* the second call; no user id ever has two rows, the rows of the other users
\* stay as they are, and the membership table is never touched.
C15_UpsertUserIdempotentButTime ==
    [][(HandlerStep /\ ev'.kind = "upsert_user") =>
         /\ membership' = membership
         /\ ev'.user = None => users' = users
         /\ ev'.user # None =>
               /\ Cardinality({r \in users' : r.user_id = ev'.user[1].id}) = 1
               /\ {r \in users' : r.user_id # ev'.user[1].id}
                     = {r \in users : r.user_id # ev'.user[1].id}
         /\ UpsertUserAgain =>
               users' = {IF r.user_id = ev'.user[1].id
                         THEN [r EXCEPT !.updated_at = now'] ELSE r : r \in users}]_vars

\* upsert_user has found the row it had written for the same name and
\* username at an earlier second, and has only moved updated_at.
C15_Witness ==
    /\ ev.kind = "upsert_user" /\ ev.user # None /\ ev.before # None
    /\ \E r \in users :
          /\ r.user_id = ev.user[1].id
          /\ r.name = ev.before[1].name /\ r.username = ev.before[1].username
          /\ r.updated_at = now /\ ev.before[1].updated_at < now
    /\ membership = {}

\* C16: in every state of the store, the state between the two commits of
\* upsert_membership included, every membership row's user_id has a users
\* row, so get_members_by_chat returns every membership row of the chat.
C16_MembershipHasUser ==
    /\ \A m \in membership : \E u \in users : u.user_id = m.user_id
    /\ \A c \in Chats :
          KnownMembers(DB, c) = {m.user_id : m \in {r \in membership : r.chat_id = c}}

\* Between the two commits of the third call, an upsert_membership: the
\* users row is there, the membership row is not yet.
C16_Witness ==
    /\ \E t \in tasks :
          /\ \E u \in users : u.user_id = t.user[1].id
          /\ ~HasRow(membership, t.chat_id, t.user[1].id)
    /\ nev = 3

\* C17: in every state of the tracked-list bot, whatever /start commands,
\* replies, failed pins and failed edits came before, the entries carry the
\* indices 1, 2, ..., len(entries) in this order and next_index is
\* len(entries) + 1.
C17_IndicesDense ==
    /\ \A i \in 1..Len(tracked.entries) : tracked.entries[i][1] = i
    /\ tracked.next_index = Len(tracked.entries) + 1

\* An entry collected after a /start whose pin raised had dropped an earlier
\* entry, the edit for the new entry having raised: it has index 1 again.
C17_Witness ==
    /\ Len(tracked.entries) = 1
    /\ tracked.entries[1][1] = 1
    /\ tracked.next_index = 2
    /\ 1 \in editFailed
    /\ \E r \in retired : r.dropped > 0
    /\ <<tracked.chat_id[1], tracked.message_id[1]>> \notin pinned

\* C18: with start_command and reply_handler interleaving at their awaits
\* (send, pin, edit), no step finds the tracked record half reset: the chat id
\* and the message id are set or unset together, every entry was collected
\* for the message the record names, and next_index is the one after the
\* entries; every step of a handler leaves the record so.
C18_NeverHalfReset ==
    /\ (tracked.chat_id = None) = (tracked.message_id = None)
    /\ Len(collected) = Len(tracked.entries)
    /\ \A i \in 1..Len(collected) :
          /\ tracked.chat_id = <<collected[i][1]>>
          /\ tracked.message_id = <<collected[i][2]>>
    /\ tracked.next_index = Len(tracked.entries) + 1

\* A second /start has reset the record, and awaits its confirmation, while
\* the edit for an entry of the first list is still awaited: the entry is
\* gone from the record.
C18_Witness ==
    /\ \E t \in tasks : t.kind = "start" /\ t.pc = "confirm"
                          /\ tracked.message_id = <<t.message_id>>
    /\ \E t \in tasks : t.kind = "reply" /\ t.pc = "edit"
                          /\ tracked.message_id # <<t.message_id>>
    /\ \E r \in retired : r.dropped > 0
    /\ tracked.entries = <<>> /\ tracked.next_index = 1

\* The (chat, user) key the call or event e is about, if it has one.
KeyOf(e) ==
    IF e.kind = "upsert_membership"
    THEN (IF e.user = None THEN None ELSE <<<<e.chat_id, e.user[1].id>>>>)
    ELSE IF e.kind = "remove_membership" THEN <<<<e.chat_id, e.user_id>>>>
    ELSE IF e.kind = "message"
    THEN (IF e.effective_chat = None \/ e.effective_user = None THEN None
          ELSE <<<<e.effective_chat[1], e.effective_user[1].id>>>>)
    ELSE IF e.kind = "chat_member_update"
    THEN LET cm == IF e.chat_member # None THEN e.chat_member ELSE e.my_chat_member
         IN  IF cm = None \/ e.effective_chat = None THEN None
             ELSE IF cm[1].new_chat_member = None THEN None
             ELSE <<<<e.effective_chat[1], cm[1].new_chat_member[1].user.id>>>>
    ELSE None

OtherRows(ms, k) ==
    {r \in ms : k = None \/ <<r.chat_id, r.user_id>> # k[1]}

\* C19: upsert_membership(c, u) and remove_membership(c, u), and the message
\* and membership-change events of chat c that call them, add, delete and
\* change no membership row with a key other than (c, u): the rows of other
\* chats and of other users of the chat are the same rows afterwards, with
\* their first_seen and last_seen.
C19_OtherRowsKept ==
    [][(HandlerStep /\ ev'.kind \in {"upsert_membership", "remove_membership",
                                     "message", "chat_member_update"})
       => OtherRows(membership', KeyOf(ev')) = OtherRows(membership, KeyOf(ev'))]_vars

\* A message of one user has arrived after the clock moved: the row of another
\* user of the chat still has its older last_seen.
C19_Witness ==
    /\ ev.kind = "message" /\ KeyOf(ev) # None
    /\ HasRow(membership, KeyOf(ev)[1][1], KeyOf(ev)[1][2])
    /\ RowOf(membership, KeyOf(ev)[1][1], KeyOf(ev)[1][2]).last_seen = now
    /\ \E r \in membership : /\ r.chat_id = KeyOf(ev)[1][1]
                             /\ r.user_id # KeyOf(ev)[1][2]
                             /\ r.last_seen < now

=============================================================================
